---- MODULE Spec2Model ----
(***************************************************************************)
(* Model of bitlocker_drive_interface: the BitlockerDrive class            *)
(* (bitlocker_drive.py) and the helpers it uses (utilities/utilities.py).  *)
(*                                                                         *)
(* One BitlockerDrive instance is shared by a few asyncio tasks.  A        *)
(* coroutine runs without interruption between two awaits, so an action    *)
(* is the code between two suspension points:                              *)
(*   Unlock / Lock     the call up to the first await inside run_command   *)
(*                     (precondition check, build, caching, hand-over of   *)
(*                     the cached command to run_command);                 *)
(*   SpawnOk/SpawnFail the outcome of asyncio.create_subprocess_exec;      *)
(*   ProcessExit       process.communicate() returning, and the rest of    *)
(*                     run_command and of unlock()/lock();                 *)
(*   Cancel            the task being cancelled while suspended.           *)
(* PrepareUnlock / PrepareLock are direct, synchronous calls of the two    *)
(* prepare_* methods.  EnvChange is any other actor changing what          *)
(* os.path.ismount and Path.exists answer for the mount point.             *)
(*                                                                         *)
(* Strings are TLA+ strings (\o is concatenation).  A Path is the tuple of *)
(* its parts, bytes are tuples of integers 0..255, decoded text is the     *)
(* tuple of its code points.  Python's None is the empty tuple.            *)
(*                                                                         *)
(* task[t] describes the call task t has in flight; `last` is the call     *)
(* that ended most recently, with what its caller got.                     *)
(***************************************************************************)
EXTENDS Integers, Sequences, FiniteSets, TLC

\* ------------------------------------------------------------------ bounds
\* total number of calls (prepare_*, unlock, lock) made in one behaviour
MaxCalls == 2

\* the asyncio tasks that use the drive; tasks are interchangeable, so a new
\* unlock()/lock() call is given to the first task that has none in flight
Tasks == { 1, 2 }

\* ------------------------------------------------------------------ inputs
None == <<>>

\* the arguments of the constructor: Path values, as tuples of parts
Drives ==
    { [ powershell_executable_path |-> <<"path", "to", "powershell.exe">>,
        mount_point |-> <<"/", "vol">> ],
      [ powershell_executable_path |-> <<"/", "usr", "bin", "pwsh">>,
        mount_point |-> <<"/", "fake", "mount">> ] }

\* passwords: the last one contains the quote character of the script
Passwords == { "pw", "a\"b" }

\* captured output of the child process: b"access denied" and b"\xff"
AccessDenied == <<97, 99, 99, 101, 115, 115, 32, 100, 101, 110, 105, 101, 100>>
NotUtf8 == <<255>>
Outputs == { AccessDenied, NotUtf8 }

\* exit statuses of the child process
ReturnCodes == {0, 1}

\* what asyncio.create_subprocess_exec raises when the process cannot be
\* started: OSError subclasses when the executable is missing or may not be
\* executed, NotImplementedError when the event loop has no subprocess
\* support (BaseEventLoop._make_subprocess_transport, e.g. the selector
\* event loop on Windows)
SpawnErrors == { "FileNotFoundError", "PermissionError", "NotImplementedError" }

VARIABLES
    ismount,                     \* os.path.ismount(mount_point), now
    exists,                      \* mount_point.exists(), now
    powershell_executable_path,  \* self.powershell_executable_path
    mount_point,                 \* self.mount_point
    subprocess_unlock_command,   \* self.subprocess_unlock_command
    subprocess_lock_command,     \* self.subprocess_lock_command
    task,                        \* per task: the call it has in flight
    last,                        \* the call that ended last, and its outcome
    ncalls                       \* calls made so far

vars == << ismount, exists, powershell_executable_path, mount_point,
           subprocess_unlock_command, subprocess_lock_command,
           task, last, ncalls >>

volume == << powershell_executable_path, mount_point >>
env == << ismount, exists >>

\* ------------------------------------------------------- str(Path), f"{p}"
RECURSIVE JoinParts(_)
JoinParts(parts) ==
    IF Len(parts) = 0 THEN ""
    ELSE IF Len(parts) = 1 THEN parts[1]
    ELSE parts[1] \o "/" \o JoinParts(Tail(parts))

\* f"{path}": the root, then the other parts joined by the separator
PathStr(p) ==
    IF Len(p) = 0 THEN "."
    ELSE IF p[1] = "/" THEN "/" \o JoinParts(Tail(p))
    ELSE JoinParts(p)

\* ------------------------------------------------ bytes.decode() (UTF-8)
IsCont(b) == b >= 128 /\ b <= 191

\* number of bytes of the character that starts at s[i]; 0 if ill-formed
CharLen(s, i) ==
    LET b == s[i]
        n == Len(s)
    IN  IF b < 128 THEN 1
        ELSE IF b >= 194 /\ b <= 223 THEN
            IF i + 1 <= n /\ IsCont(s[i+1]) THEN 2 ELSE 0
        ELSE IF b >= 224 /\ b <= 239 THEN
            IF /\ i + 2 <= n
               /\ IsCont(s[i+1]) /\ IsCont(s[i+2])
               /\ (b = 224 => s[i+1] >= 160)
               /\ (b = 237 => s[i+1] <= 159)
            THEN 3 ELSE 0
        ELSE IF b >= 240 /\ b <= 244 THEN
            IF /\ i + 3 <= n
               /\ IsCont(s[i+1]) /\ IsCont(s[i+2]) /\ IsCont(s[i+3])
               /\ (b = 240 => s[i+1] >= 144)
               /\ (b = 244 => s[i+1] <= 143)
            THEN 4 ELSE 0
        ELSE 0

CodePoint(s, i, k) ==
    IF k = 1 THEN s[i]
    ELSE IF k = 2 THEN (s[i] - 192) * 64 + (s[i+1] - 128)
    ELSE IF k = 3 THEN (s[i] - 224) * 4096 + (s[i+1] - 128) * 64 + (s[i+2] - 128)
    ELSE (s[i] - 240) * 262144 + (s[i+1] - 128) * 4096
         + (s[i+2] - 128) * 64 + (s[i+3] - 128)

RECURSIVE DecodeFrom(_, _)
\* [ok, text]: ok is FALSE when decode() raises UnicodeDecodeError
DecodeFrom(s, i) ==
    IF i > Len(s) THEN [ok |-> TRUE, text |-> <<>>]
    ELSE LET k == CharLen(s, i)
         IN  IF k = 0 THEN [ok |-> FALSE, text |-> <<>>]
             ELSE LET rest == DecodeFrom(s, i + k)
                  IN  [ok |-> rest.ok,
                       text |-> IF rest.ok THEN <<CodePoint(s, i, k)>> \o rest.text
                                ELSE <<>>]

decode(s) == DecodeFrom(s, 1)

\* ------------------------------------------------------ utilities.is_mounted
\* variant that asks only whether the path exists
is_mounted_exists_only(im, ex) == ex

\* os.path.ismount(path) and path.exists()
is_mounted(im, ex) == im /\ ex

\* --------------------------------------------- prepare_unlock_subprocess
\* variants of the checks: without the lock-state check, without the
\* mount-point check, with the lock-state test of prepare_lock_subprocess
prepare_unlock_check_no_state(im, ex) ==
    IF ~im THEN "FileNotFoundError" ELSE "ok"

prepare_unlock_check_no_mount(im, ex) ==
    IF im /\ ex THEN "AlreadyUnlockedError" ELSE "ok"

prepare_unlock_check_inverted(im, ex) ==
    IF ~im THEN "FileNotFoundError"
    ELSE IF ~(im /\ ex) THEN "AlreadyUnlockedError"
    ELSE "ok"

\* variant with mutual exclusion: refused while another unlock() is in flight
prepare_unlock_check_exclusive(im, ex) ==
    IF ~im THEN "FileNotFoundError"
    ELSE IF is_mounted(im, ex) THEN "AlreadyUnlockedError"
    ELSE IF \E u \in Tasks : task[u].op = "unlock" /\ task[u].pc # "idle"
         THEN "AlreadyUnlockedError"
    ELSE "ok"

\* the checks at the head of the method: the exception raised, or "ok"
prepare_unlock_check(im, ex) ==
    IF ~im THEN "FileNotFoundError"
    ELSE IF is_mounted(im, ex) THEN "AlreadyUnlockedError"
    ELSE "ok"

\* variants of the script: the password masked, the two statements on one
\* line separated by a single space
unlock_script_masked(mp, password) ==
    "$securePassword = ConvertTo-SecureString -String \"" \o "********"
    \o "\" -AsPlainText -Force; "
    \o "                Unlock-BitLocker -MountPoint \"" \o PathStr(mp)
    \o "\" -Password $securePassword"

unlock_script_one_space(mp, password) ==
    "$securePassword = ConvertTo-SecureString -String \"" \o password
    \o "\" -AsPlainText -Force; "
    \o "Unlock-BitLocker -MountPoint \"" \o PathStr(mp)
    \o "\" -Password $securePassword"

\* the third argument: line 66, the line continuation, then line 67 with
\* its indentation of 16 spaces
unlock_script(mp, password) ==
    "$securePassword = ConvertTo-SecureString -String \"" \o password
    \o "\" -AsPlainText -Force; "
    \o "                Unlock-BitLocker -MountPoint \"" \o PathStr(mp)
    \o "\" -Password $securePassword"

unlock_command(exe, mp, password) ==
    << PathStr(exe), "-Command", unlock_script(mp, password) >>

\* ----------------------------------------------- prepare_lock_subprocess
\* variants of the checks: the lock-state check first; the checks skipped
\* once a lock command has been built
prepare_lock_check_swapped(im, ex) ==
    IF ~(im /\ ex) THEN "AlreadyLockedError"
    ELSE IF ~im THEN "FileNotFoundError"
    ELSE "ok"

prepare_lock_check_cached(im, ex) ==
    IF subprocess_lock_command # None THEN "ok"
    ELSE IF ~im THEN "FileNotFoundError"
    ELSE IF ~(im /\ ex) THEN "AlreadyLockedError"
    ELSE "ok"

\* variant without the lock-state check
prepare_lock_check_no_state(im, ex) ==
    IF ~im THEN "FileNotFoundError" ELSE "ok"

\* the checks at the head of the method: the exception raised, or "ok"
prepare_lock_check(im, ex) ==
    IF ~im THEN "FileNotFoundError"
    ELSE IF ~is_mounted(im, ex) THEN "AlreadyLockedError"
    ELSE "ok"

\* variant of the script: no forced dismount
lock_script_no_force(mp) ==
    "Lock-BitLocker -MountPoint \"" \o PathStr(mp) \o "\""

lock_script(mp) ==
    "Lock-BitLocker -MountPoint \"" \o PathStr(mp) \o "\" -ForceDismount"

lock_command(exe, mp) ==
    << PathStr(exe), "-Command", lock_script(mp) >>

\* ---------------------------------------------------- utilities.run_command
\* run_command is entered with `command`: the executor has been handed it
run_command_enter(dispatched, command) == Append(dispatched, command)

\* f"Command failed: {command}\n{stderr.decode()}", kept as its pieces
command_failed(command, text) ==
    [ prefix |-> "Command failed: ", command |-> command, stderr |-> text ]

\* run_command after communicate(): what it raises ("none": it returns),
\* the message of the RuntimeError, and what it printed
run_command_finish(command, rc, out, err, print_output) ==
    LET o == decode(out)
        e == decode(err)
    IN  IF rc # 0
        THEN IF e.ok
             THEN [ raised |-> "RuntimeError",
                    message |-> command_failed(command, e.text), printed |-> <<>> ]
             ELSE [ raised |-> "UnicodeDecodeError",
                    message |-> command_failed(command, <<>>), printed |-> <<>> ]
        ELSE IF ~print_output
        THEN [ raised |-> "none",
               message |-> command_failed(command, <<>>), printed |-> <<>> ]
        ELSE IF ~o.ok
        THEN [ raised |-> "UnicodeDecodeError",
               message |-> command_failed(command, <<>>), printed |-> <<>> ]
        ELSE IF ~e.ok
        THEN [ raised |-> "UnicodeDecodeError",
               message |-> command_failed(command, <<>>), printed |-> <<o.text>> ]
        ELSE [ raised |-> "none",
               message |-> command_failed(command, <<>>),
               printed |-> <<o.text, e.text>> ]

\* ------------------------------------- try/except of unlock() and lock()
\* variant: no handler, the RuntimeError of run_command reaches the caller
controller_outcome_reraise(raised) ==
    IF raised = "none" THEN "None" ELSE raised

\* isinstance(e, RuntimeError): NotImplementedError is a subclass
IsRuntimeError(raised) == raised \in {"RuntimeError", "NotImplementedError"}

\* variant with `except BaseException`: a cancellation is swallowed as well
controller_outcome_catch_base(raised) ==
    IF raised = "none" \/ IsRuntimeError(raised) \/ raised = "CancelledError"
    THEN "None" ELSE raised

\* what the caller of unlock()/lock() gets when `raised` comes out of
\* run_command: "None" is a normal return
controller_outcome(raised) ==
    IF raised = "none" \/ IsRuntimeError(raised) THEN "None" ELSE raised

\* the records the handler writes with logger.error:
\* f"Error running unlock command: {str(e)}"
controller_log(operation, raised, message) ==
    IF IsRuntimeError(raised)
    THEN << [ prefix |-> IF operation = "unlock"
                         THEN "Error running unlock command: "
                         ELSE "Error running lock command: ",
              error |-> message ] >>
    ELSE <<>>

\* ------------------------------------------- the external BitLocker cmdlets
\* Path.exists() of the mount point once the child process has ended: exit
\* status 0 means Unlock-BitLocker / Lock-BitLocker did what was asked
utility_effect(operation, rc, ex) ==
    IF rc = 0 THEN operation = "unlock" ELSE ex

\* ------------------------------------------------------------------ state
\* a call: its arguments, the mount state its precondition check read, the
\* commands it built and handed to run_command, how its process ended, what
\* it printed and logged, and what its caller got ("pending": nothing yet);
\* spawn_error: what create_subprocess_exec raised; cancelled: the task was
\* cancelled at an await; after_lock_ok: the call that ended last before
\* this one started was a lock() whose process exited with status 0;
\* before: the operation of the latest call, among those that had ended
\* when this one started, that handed a command to run_command
NoCall ==
    [ pc |-> "idle", op |-> "none", task |-> 0, password |-> "",
      print_output |-> FALSE, obs_ismount |-> FALSE, obs_exists |-> FALSE,
      builds |-> 0, command |-> None, dispatched |-> <<>>,
      returncode |-> -1, stderr |-> <<>>, printed |-> <<>>, logged |-> <<>>,
      spawn_error |-> "", cancelled |-> FALSE,
      after_lock_ok |-> FALSE, before |-> "none", result |-> "pending" ]

\* task t starts a call: the mount state its precondition check reads
Started(t, operation, password, print_output) ==
    [ NoCall EXCEPT !.op = operation, !.task = t, !.password = password,
                    !.print_output = print_output,
                    !.obs_ismount = ismount, !.obs_exists = exists,
                    !.after_lock_ok = (last.op = "lock" /\ last.returncode = 0
                                       /\ last.result = "None"),
                    !.before = IF last.dispatched # <<>> THEN last.op
                               ELSE last.before ]

\* task t may start unlock() or lock()
CanCall(t) ==
    /\ ncalls < MaxCalls
    /\ task[t].pc = "idle"
    /\ \A u \in Tasks : u < t => task[u].pc # "idle"

Init ==
    /\ ismount \in BOOLEAN
    /\ exists \in BOOLEAN
    /\ \E d \in Drives :
          /\ powershell_executable_path = d.powershell_executable_path
          /\ mount_point = d.mount_point
    /\ subprocess_unlock_command = None
    /\ subprocess_lock_command = None
    /\ task = [t \in Tasks |-> NoCall]
    /\ last = NoCall
    /\ ncalls = 0

\* variant of the call below that returns the command without caching it
PrepareUnlock_uncached(password) ==
    LET check == prepare_unlock_check(ismount, exists)
        command == unlock_command(powershell_executable_path, mount_point, password)
        call == Started(0, "prepare_unlock_subprocess", password, FALSE)
    IN  /\ ncalls < MaxCalls
        /\ ncalls' = ncalls + 1
        /\ IF check = "ok"
           THEN last' = [call EXCEPT !.pc = "done", !.builds = 1,
                                     !.command = command,
                                     !.result = "returned"]
           ELSE last' = [call EXCEPT !.pc = "done", !.result = check]
        /\ UNCHANGED << env, volume, subprocess_unlock_command,
                        subprocess_lock_command, task >>

\* ------------------------------------------------------------------ actions
\* a direct call of prepare_unlock_subprocess(password), by whoever runs
\* (the method is synchronous: the call is over before any task resumes)
PrepareUnlock(password) ==
    LET check == prepare_unlock_check(ismount, exists)
        command == unlock_command(powershell_executable_path, mount_point, password)
        call == Started(0, "prepare_unlock_subprocess", password, FALSE)
    IN  /\ ncalls < MaxCalls
        /\ ncalls' = ncalls + 1
        /\ IF check = "ok"
           THEN /\ subprocess_unlock_command' = command
                /\ last' = [call EXCEPT !.pc = "done", !.builds = 1,
                                        !.command = subprocess_unlock_command',
                                        !.result = "returned"]
           ELSE /\ UNCHANGED subprocess_unlock_command
                /\ last' = [call EXCEPT !.pc = "done", !.result = check]
        /\ UNCHANGED << env, volume, subprocess_lock_command, task >>

\* variant of the call below that also forgets the cached unlock command
PrepareLock_clears_unlock ==
    LET check == prepare_lock_check(ismount, exists)
        command == lock_command(powershell_executable_path, mount_point)
        call == Started(0, "prepare_lock_subprocess", "", FALSE)
    IN  /\ ncalls < MaxCalls
        /\ ncalls' = ncalls + 1
        /\ IF check = "ok"
           THEN /\ subprocess_lock_command' = command
                /\ subprocess_unlock_command' = None
                /\ last' = [call EXCEPT !.pc = "done", !.builds = 1,
                                        !.command = subprocess_lock_command',
                                        !.result = "returned"]
           ELSE /\ UNCHANGED << subprocess_lock_command, subprocess_unlock_command >>
                /\ last' = [call EXCEPT !.pc = "done", !.result = check]
        /\ UNCHANGED << env, volume, task >>

\* a direct call of prepare_lock_subprocess()
PrepareLock ==
    LET check == prepare_lock_check(ismount, exists)
        command == lock_command(powershell_executable_path, mount_point)
        call == Started(0, "prepare_lock_subprocess", "", FALSE)
    IN  /\ ncalls < MaxCalls
        /\ ncalls' = ncalls + 1
        /\ IF check = "ok"
           THEN /\ subprocess_lock_command' = command
                /\ last' = [call EXCEPT !.pc = "done", !.builds = 1,
                                        !.command = subprocess_lock_command',
                                        !.result = "returned"]
           ELSE /\ UNCHANGED subprocess_lock_command
                /\ last' = [call EXCEPT !.pc = "done", !.result = check]
        /\ UNCHANGED << env, volume, subprocess_unlock_command, task >>

\* variant of the call below with a suspension between the build and the
\* read of the cached command: what is handed to run_command is the command
\* another unlock() in flight has cached, if there is one
Unlock_reads_other(t, password, print_output) ==
    LET check == prepare_unlock_check(ismount, exists)
        command == unlock_command(powershell_executable_path, mount_point, password)
        call == Started(t, "unlock", password, print_output)
        others == { u \in Tasks : task[u].op = "unlock" /\ task[u].pc # "idle" }
        read == IF others = {} THEN command
                ELSE task[CHOOSE u \in others : TRUE].command
    IN  /\ CanCall(t)
        /\ ncalls' = ncalls + 1
        /\ IF check = "ok"
           THEN /\ subprocess_unlock_command' = command
                /\ task' = [task EXCEPT ![t] =
                      [call EXCEPT !.pc = "spawning", !.builds = 1,
                                   !.command = command,
                                   !.dispatched = run_command_enter(
                                        call.dispatched, read)]]
                /\ UNCHANGED last
           ELSE /\ UNCHANGED << subprocess_unlock_command, task >>
                /\ last' = [call EXCEPT !.pc = "done", !.result = check]
        /\ UNCHANGED << env, volume, subprocess_lock_command >>

\* unlock(password, print_output) up to the first await of run_command
Unlock(t, password, print_output) ==
    LET check == prepare_unlock_check(ismount, exists)
        command == unlock_command(powershell_executable_path, mount_point, password)
        call == Started(t, "unlock", password, print_output)
    IN  /\ CanCall(t)
        /\ ncalls' = ncalls + 1
        /\ IF check = "ok"
           THEN /\ subprocess_unlock_command' = command
                /\ task' = [task EXCEPT ![t] =
                      [call EXCEPT !.pc = "spawning", !.builds = 1,
                                   !.command = command,
                                   !.dispatched = run_command_enter(
                                        call.dispatched, subprocess_unlock_command')]]
                /\ UNCHANGED last
           ELSE /\ UNCHANGED << subprocess_unlock_command, task >>
                /\ last' = [call EXCEPT !.pc = "done", !.result = check]
        /\ UNCHANGED << env, volume, subprocess_lock_command >>

\* lock(print_output) up to the first await of run_command
Lock(t, print_output) ==
    LET check == prepare_lock_check(ismount, exists)
        command == lock_command(powershell_executable_path, mount_point)
        call == Started(t, "lock", "", print_output)
    IN  /\ CanCall(t)
        /\ ncalls' = ncalls + 1
        /\ IF check = "ok"
           THEN /\ subprocess_lock_command' = command
                /\ task' = [task EXCEPT ![t] =
                      [call EXCEPT !.pc = "spawning", !.builds = 1,
                                   !.command = command,
                                   !.dispatched = run_command_enter(
                                        call.dispatched, subprocess_lock_command')]]
                /\ UNCHANGED last
           ELSE /\ UNCHANGED << subprocess_lock_command, task >>
                /\ last' = [call EXCEPT !.pc = "done", !.result = check]
        /\ UNCHANGED << env, volume, subprocess_unlock_command >>

\* asyncio.create_subprocess_exec returns the process
SpawnOk(t) ==
    /\ task[t].pc = "spawning"
    /\ task' = [task EXCEPT ![t].pc = "communicating"]
    /\ UNCHANGED << env, volume, subprocess_unlock_command, subprocess_lock_command,
                    last, ncalls >>

\* asyncio.create_subprocess_exec raises e (str(e) is kept as ""): the
\* handler of unlock()/lock() lets it through unless it is a RuntimeError
SpawnFail(t, e) ==
    /\ task[t].pc = "spawning"
    /\ last' = [task[t] EXCEPT !.pc = "done", !.spawn_error = e,
                               !.logged = controller_log(task[t].op, e, ""),
                               !.result = controller_outcome(e)]
    /\ task' = [task EXCEPT ![t] = NoCall]
    /\ UNCHANGED << env, volume, subprocess_unlock_command, subprocess_lock_command,
                    ncalls >>

\* variant of the step below: a failed command also resets the cached
\* command of its kind
ProcessExit_reset_cache(t, rc, out, err) ==
    LET c == task[t]
        r == run_command_finish(c.dispatched[1], rc, out, err, c.print_output)
    IN  /\ c.pc = "communicating"
        /\ last' = [c EXCEPT !.pc = "done", !.returncode = rc, !.stderr = err,
                             !.printed = r.printed,
                             !.logged = controller_log(c.op, r.raised, r.message),
                             !.result = controller_outcome(r.raised)]
        /\ task' = [task EXCEPT ![t] = NoCall]
        /\ exists' = utility_effect(c.op, rc, exists)
        /\ subprocess_unlock_command' =
              IF rc # 0 /\ c.op = "unlock" THEN None ELSE subprocess_unlock_command
        /\ subprocess_lock_command' =
              IF rc # 0 /\ c.op = "lock" THEN None ELSE subprocess_lock_command
        /\ UNCHANGED << ismount, volume, ncalls >>

\* process.communicate() returns: the rest of run_command and of unlock()/lock()
ProcessExit(t, rc, out, err) ==
    LET c == task[t]
        r == run_command_finish(c.dispatched[1], rc, out, err, c.print_output)
    IN  /\ c.pc = "communicating"
        /\ last' = [c EXCEPT !.pc = "done", !.returncode = rc, !.stderr = err,
                             !.printed = r.printed,
                             !.logged = controller_log(c.op, r.raised, r.message),
                             !.result = controller_outcome(r.raised)]
        /\ task' = [task EXCEPT ![t] = NoCall]
        /\ exists' = utility_effect(c.op, rc, exists)
        /\ UNCHANGED << ismount, volume, subprocess_unlock_command,
                        subprocess_lock_command, ncalls >>

\* the task is cancelled while it waits in run_command: CancelledError is
\* raised at the await; it is not a RuntimeError
Cancel(t) ==
    /\ task[t].pc \in {"spawning", "communicating"}
    /\ last' = [task[t] EXCEPT !.pc = "done", !.cancelled = TRUE,
                               !.result = controller_outcome("CancelledError")]
    /\ task' = [task EXCEPT ![t] = NoCall]
    /\ UNCHANGED << env, volume, subprocess_unlock_command, subprocess_lock_command,
                    ncalls >>

\* another actor mounts, unmounts, unlocks or locks the volume
EnvChange ==
    /\ ismount' \in BOOLEAN
    /\ exists' \in BOOLEAN
    /\ << ismount', exists' >> # << ismount, exists >>
    /\ UNCHANGED << volume, subprocess_unlock_command, subprocess_lock_command,
                    task, last, ncalls >>

Next ==
    \/ \E password \in Passwords : PrepareUnlock(password)
    \/ PrepareLock
    \/ \E t \in Tasks, password \in Passwords, print_output \in BOOLEAN :
          Unlock(t, password, print_output)
    \/ \E t \in Tasks, print_output \in BOOLEAN : Lock(t, print_output)
    \/ \E t \in Tasks : SpawnOk(t)
    \/ \E t \in Tasks, e \in SpawnErrors : SpawnFail(t, e)
    \/ \E t \in Tasks, rc \in ReturnCodes, out \in Outputs, err \in Outputs :
          ProcessExit(t, rc, out, err)
    \/ \E t \in Tasks : Cancel(t)
    \/ EnvChange

Spec == Init /\ [][Next]_vars

\* sequential use with an executor that always succeeds: a call is made
\* only when no call is in flight, every process starts and exits with
\* status 0, and nobody else changes the mount state
NoCallInFlight == \A t \in Tasks : task[t].pc = "idle"

NextSeq ==
    \/ \E t \in Tasks, password \in Passwords, print_output \in BOOLEAN :
          NoCallInFlight /\ Unlock(t, password, print_output)
    \/ \E t \in Tasks, print_output \in BOOLEAN :
          NoCallInFlight /\ Lock(t, print_output)
    \/ \E t \in Tasks : SpawnOk(t)
    \/ \E t \in Tasks, out \in Outputs, err \in Outputs :
          ProcessExit(t, 0, out, err)

SpecSeq == Init /\ [][NextSeq]_vars

\* every call there is to speak of: those in flight and the one that ended last
Calls == { task[t] : t \in Tasks } \cup { last }

\* calls of the two coroutines, and calls of the two build methods
ControllerCalls == { c \in Calls : c.op \in {"unlock", "lock"} }
UnlockBuilds == { c \in Calls : c.op = "prepare_unlock_subprocess" }
LockBuilds == { c \in Calls : c.op = "prepare_lock_subprocess" }

\* ------------------------------------------------------------------- C1
\* C1: unlock() hands no command to run_command when its precondition check
\* saw no mount point or an unlocked volume, and lock() hands none when its
\* check saw no mount point or a locked volume.
C1_NoIllegalDispatch ==
    \A c \in ControllerCalls :
        /\ (c.op = "unlock" /\ (~c.obs_ismount \/ c.obs_exists))
              => c.dispatched = <<>>
        /\ (c.op = "lock" /\ (~c.obs_ismount \/ ~c.obs_exists))
              => c.dispatched = <<>>

\* unlock() on a mounted, unlocked volume has ended without a dispatch
C1_Witness ==
    /\ last.op = "unlock" /\ last.pc = "done"
    /\ last.obs_ismount /\ last.obs_exists
    /\ last.result = "AlreadyUnlockedError"
    /\ last.dispatched = <<>>

\* ------------------------------------------------------------------- C2
ExitedNonZero(c) == c.pc = "done" /\ c.returncode # 0 /\ c.returncode # -1

C3_NotFoundFirst ==
    \A c \in UnlockBuilds :
        ~c.obs_ismount =>
            /\ c.result = "FileNotFoundError"
            /\ c.builds = 0 /\ c.command = None

\* the path exists but is no mount point: the call ended with FileNotFoundError
C3_Witness ==
    /\ last.op = "prepare_unlock_subprocess"
    /\ ~last.obs_ismount /\ last.obs_exists
    /\ last.password = "a\"b"
    /\ last.result = "FileNotFoundError"

\* ------------------------------------------------------------------- C4
\* C4: prepare_unlock_subprocess on a mount point that is accessible raises
\* AlreadyUnlockedError, whatever the password, and returns no command.
C4_AlreadyUnlocked ==
    \A c \in UnlockBuilds :
        (c.obs_ismount /\ c.obs_exists) =>
            /\ c.result = "AlreadyUnlockedError"
            /\ c.builds = 0 /\ c.command = None

C4_Witness ==
    /\ last.op = "prepare_unlock_subprocess"
    /\ last.obs_ismount /\ last.obs_exists
    /\ last.result = "AlreadyUnlockedError"
    /\ last.command = None

\* ------------------------------------------------------------------- C5
\* C5: prepare_lock_subprocess raises FileNotFoundError whenever the path is
\* not a mount point (also when the volume is not accessible), and
\* AlreadyLockedError when it is a mount point that is not accessible.
C5_LockPreconditions ==
    \A c \in LockBuilds :
        /\ ~c.obs_ismount =>
              (c.result = "FileNotFoundError" /\ c.command = None)
        /\ (c.obs_ismount /\ ~c.obs_exists) =>
              (c.result = "AlreadyLockedError" /\ c.command = None)

\* neither a mount point nor accessible: FileNotFoundError wins
C5_Witness ==
    /\ last.op = "prepare_lock_subprocess"
    /\ ~last.obs_ismount /\ ~last.obs_exists
    /\ last.result = "FileNotFoundError"

\* ------------------------------------------------------------------- C6
\* the precondition check of controller call c passed
CheckPassed(c) ==
    \/ c.op = "unlock" /\ c.obs_ismount /\ ~c.obs_exists
    \/ c.op = "lock" /\ c.obs_ismount /\ c.obs_exists

\* the part of C6 that holds: a call whose check passed has built exactly
\* once and has handed run_command exactly that command exactly once
C6_BuildOnceDispatchOnce ==
    \A c \in ControllerCalls :
        CheckPassed(c) =>
            /\ c.builds = 1
            /\ c.command # None
            /\ c.dispatched = << c.command >>

\* C6: every unlock()/lock() call whose check passed builds once, then hands
\* the command built in that call to run_command once and never again, and
\* returns without error when the process exits with status 0.
C6_DispatchOnceThenSuccess ==
    /\ C6_BuildOnceDispatchOnce
    /\ \A c \in ControllerCalls :
          (c.pc = "done" /\ c.returncode = 0) => c.result = "None"

\* ------------------------------------------------------------------- C7
\* C7: a lock() that starts when the call that ended last was a lock() whose
\* process exited with status 0, and that finds the volume locked (a mount
\* point that is not accessible), raises AlreadyLockedError and hands
\* nothing to run_command, although the drive holds the lock command the
\* first call built.
C7_SecondLockAlreadyLocked ==
    \A c \in ControllerCalls :
        ( /\ c.op = "lock" /\ c.after_lock_ok
          /\ c.obs_ismount /\ ~c.obs_exists )
        => /\ c.pc = "done"
           /\ c.result = "AlreadyLockedError"
           /\ c.builds = 0
           /\ c.dispatched = <<>>

C7_Witness ==
    /\ last.op = "lock" /\ last.after_lock_ok
    /\ last.obs_ismount /\ ~last.obs_exists
    /\ last.result = "AlreadyLockedError"
    /\ subprocess_lock_command # None

\* ------------------------------------------------------------------- C8
\* call c built an unlock command
UnlockBuilt(c) ==
    c.op \in {"prepare_unlock_subprocess", "unlock"} /\ c.builds = 1

PasswordSamples ==
    Passwords \cup { "", "pw ", "decoded password", "incorrect password" }

\* C8: two unlock commands built for this drive with different passwords
\* differ, and so do the commands of any two different sample passwords
\* (the drive's paths never change, so the samples are compared once, in
\* the initial states).
C8_PasswordsGiveDifferentCommands ==
    /\ \A c1, c2 \in Calls :
          (UnlockBuilt(c1) /\ UnlockBuilt(c2) /\ c1.password # c2.password)
             => c1.command # c2.command
    /\ ncalls = 0 =>
          \A p1, p2 \in PasswordSamples :
              p1 # p2 =>
                 unlock_command(powershell_executable_path, mount_point, p1)
                    # unlock_command(powershell_executable_path, mount_point, p2)

\* a build with one password ended while an unlock() with the other is in flight
C8_Witness ==
    /\ last.op = "prepare_unlock_subprocess" /\ last.result = "returned"
    /\ \E t \in Tasks :
          /\ UnlockBuilt(task[t])
          /\ task[t].password # last.password

\* ------------------------------------------------------------------- C9
\* str() of the Path values of Drives, written out
ExpectedStr(p) ==
    CASE p = <<"path", "to", "powershell.exe">> -> "path/to/powershell.exe"
      [] p = <<"/", "usr", "bin", "pwsh">> -> "/usr/bin/pwsh"
      [] p = <<"/", "vol">> -> "/vol"
      [] p = <<"/", "fake", "mount">> -> "/fake/mount"

\* expected_command of test_prepare_unlock_subprocess_command_setup
ExpectedUnlockCommand(password) ==
    << ExpectedStr(powershell_executable_path),
       "-Command",
       "$securePassword = ConvertTo-SecureString -String \"" \o password
       \o "\" -AsPlainText -Force;                 Unlock-BitLocker -MountPoint \""
       \o ExpectedStr(mount_point) \o "\" -Password $securePassword" >>

\* C9: on a mount point that is not accessible, prepare_unlock_subprocess
\* returns the three arguments str(executable path), "-Command" and the
\* script with the password and str(mount point) embedded as they are,
\* whatever else the drive holds.
C9_UnlockCommandExact ==
    \A c \in UnlockBuilds :
        (c.obs_ismount /\ ~c.obs_exists) =>
            /\ c.result = "returned"
            /\ Len(c.command) = 3
            /\ c.command = ExpectedUnlockCommand(c.password)

\* built with the password that contains a quote
C9_Witness ==
    /\ last.op = "prepare_unlock_subprocess" /\ last.result = "returned"
    /\ last.password = "a\"b"
    /\ last.command[1] = "/usr/bin/pwsh"

\* ------------------------------------------------------------------ C10
\* expected_command of test_prepare_lock_subprocess_command_setup
ExpectedLockCommand ==
    << ExpectedStr(powershell_executable_path),
       "-Command",
       "Lock-BitLocker -MountPoint \"" \o ExpectedStr(mount_point)
       \o "\" -ForceDismount" >>

\* C10: on an accessible mount point, prepare_lock_subprocess returns the
\* three arguments str(executable path), "-Command" and the Lock-BitLocker
\* script with -ForceDismount for str(mount point), whatever unlock command
\* or password the drive has seen.
C10_LockCommandExact ==
    \A c \in LockBuilds :
        (c.obs_ismount /\ c.obs_exists) =>
            /\ c.result = "returned"
            /\ Len(c.command) = 3
            /\ c.command = ExpectedLockCommand

\* built while the drive holds a previously built unlock command
C10_Witness ==
    /\ last.op = "prepare_lock_subprocess" /\ last.result = "returned"
    /\ subprocess_unlock_command # None

\* ------------------------------------------------------------------ C11
\* what the precondition check of controller call c answered for the mount
\* state it read
CheckOf(c) ==
    IF c.op = "unlock" THEN prepare_unlock_check(c.obs_ismount, c.obs_exists)
    ELSE prepare_lock_check(c.obs_ismount, c.obs_exists)

PreconditionErrors ==
    { "FileNotFoundError", "AlreadyUnlockedError", "AlreadyLockedError" }

\* the part of C11 that holds: when the build step of unlock()/lock() fails,
\* the call has ended and its caller got that very exception, with nothing
\* handed to run_command and nothing logged
C11_PreconditionFailurePropagates ==
    \A c \in ControllerCalls :
        CheckOf(c) # "ok" =>
            /\ c.pc = "done"
            /\ c.result = CheckOf(c)
            /\ c.dispatched = <<>> /\ c.logged = <<>>

\* C11: unlock() fails with FileNotFoundError or AlreadyUnlockedError, and
\* lock() with FileNotFoundError or AlreadyLockedError, exactly when its
\* build step failed with that exception.
C11_PreconditionFailureExactly ==
    /\ C11_PreconditionFailurePropagates
    /\ \A c \in ControllerCalls :
          c.result \in PreconditionErrors => CheckOf(c) = c.result

\* ------------------------------------------------------------------ C12
\* a step in which a call is made, and the record of that call after the
\* step: in flight in its task, or already ended in `last`
CallStarts == ncalls' = ncalls + 1

NewCall ==
    IF task' = task THEN last'
    ELSE task'[CHOOSE t \in Tasks : task'[t] # task[t]]

\* an unlock() call is suspended in run_command
UnlockInFlight ==
    \E u \in Tasks : task[u].op = "unlock" /\ task[u].pc \in {"spawning", "communicating"}

\* C12: an unlock() call started on a Locked volume while another unlock()
\* is still in flight passes the precondition check, builds its command and
\* dispatches it: nothing excludes the second call.
C12_ConcurrentUnlocksBothDispatch ==
    [][ ( /\ CallStarts
          /\ NewCall.op = "unlock"
          /\ UnlockInFlight
          /\ ismount /\ ~exists )
        => /\ NewCall.pc = "spawning"
           /\ NewCall.builds = 1
           /\ Len(NewCall.dispatched) = 1
           /\ UnlockInFlight' ]_vars

\* two unlock commands are in flight at once, both checked on a Locked volume
C12_Witness ==
    \A t \in Tasks :
        /\ task[t].op = "unlock"
        /\ task[t].pc \in {"spawning", "communicating"}
        /\ task[t].obs_ismount /\ ~task[t].obs_exists
        /\ Len(task[t].dispatched) = 1

\* ------------------------------------------------------------------ C13
\* C13: a call cancelled while it is suspended in run_command ends with
\* CancelledError at its caller: the handler neither swallows it nor turns
\* it into the logged failure, and the call does not return normally.
C13_CancellationPropagates ==
    \A c \in Calls :
        c.cancelled =>
            /\ c.pc = "done"
            /\ c.result = "CancelledError"
            /\ c.logged = <<>>
            /\ c.returncode = -1

\* an unlock() or lock() call that was cancelled after it dispatched
C13_Witness ==
    /\ last.cancelled
    /\ last.op \in {"unlock", "lock"}
    /\ Len(last.dispatched) = 1

\* ------------------------------------------------------------------ C14
\* the part of C14 that holds: a spawn failure that is not a RuntimeError
\* (the OSError family) reaches the caller unchanged and unlogged
C14_OSErrorSurfaced ==
    \A c \in Calls :
        (c.spawn_error # "" /\ ~IsRuntimeError(c.spawn_error)) =>
            /\ c.result = c.spawn_error
            /\ c.logged = <<>>

\* C14: when the precondition check passed but the process could not be
\* started, the caller gets the spawn error: the call does not return
\* normally, and the error is not handled as a failed command (logged and
\* swallowed).
C14_SpawnErrorSurfaced ==
    \A c \in Calls :
        c.spawn_error # "" =>
            /\ CheckOf(c) = "ok"
            /\ c.result = c.spawn_error
            /\ c.result # "None"
            /\ c.logged = <<>>

\* ------------------------------------------------------------------ C15
\* the fields of the object
fields ==
    << powershell_executable_path, mount_point,
       subprocess_unlock_command, subprocess_lock_command >>

\* the step in which the dispatched command of a call ends with a non-zero
\* exit status
ExecutionFails ==
    \E t \in Tasks :
        /\ task[t].pc = "communicating"
        /\ task'[t].pc = "idle"
        /\ last'.task = t
        /\ last'.returncode \notin {0, -1}

\* C15: no step changes mount_point or powershell_executable_path; the two
\* cached commands change only in a step that starts a call; the step in
\* which a command fails leaves all four fields as they were.
C15_Frame ==
    [][ /\ volume' = volume
        /\ ~CallStarts =>
              UNCHANGED << subprocess_unlock_command, subprocess_lock_command >>
        /\ ExecutionFails => fields' = fields ]_vars

\* an unlock command has failed and the cached command is still the one that
\* was dispatched
C15_Witness ==
    /\ last.op = "unlock"
    /\ last.returncode = 1
    /\ last.dispatched = << subprocess_unlock_command >>

\* ------------------------------------------------------------------ C16
\* the two observable states of a volume whose path is a mount point
Locked(im, ex) == im /\ ~ex
Unlocked(im, ex) == im /\ ex

\* the calls that ran the checks of the unlock build, resp. the lock build
UnlockKind(c) == c.op \in {"unlock", "prepare_unlock_subprocess"}
LockKind(c) == c.op \in {"lock", "prepare_lock_subprocess"}

\* C16: on every mount state the two builds never both succeed: on a mount
\* point exactly one does (the unlock build iff Locked, the lock build iff
\* Unlocked), elsewhere neither does; is_mounted holds only on a mount
\* point.  Every build made so far succeeded exactly on the state of its kind.
C16_ExactlyOneBuildSucceeds ==
    LET u == prepare_unlock_check(ismount, exists) = "ok"
        l == prepare_lock_check(ismount, exists) = "ok"
    IN  /\ ~(u /\ l)
        /\ ismount => (u # l)
        /\ u <=> Locked(ismount, exists)
        /\ l <=> Unlocked(ismount, exists)
        /\ ~ismount => (~u /\ ~l)
        /\ is_mounted(ismount, exists) => ismount
        /\ \A c \in Calls :
              /\ UnlockKind(c) => (c.builds = 1 <=> Locked(c.obs_ismount, c.obs_exists))
              /\ LockKind(c) => (c.builds = 1 <=> Unlocked(c.obs_ismount, c.obs_exists))

\* the path exists without being a mount point, and a lock build has just
\* been refused there with FileNotFoundError
C16_Witness ==
    /\ ~ismount /\ exists
    /\ last.op = "prepare_lock_subprocess"
    /\ ~last.obs_ismount /\ last.obs_exists
    /\ last.result = "FileNotFoundError"

\* ------------------------------------------------------------------ C17
\* C17: both cached commands start unset; a successful unlock build sets
\* subprocess_unlock_command to the command it returns and leaves
\* subprocess_lock_command alone, a successful lock build does the same the
\* other way round, and a failed build, like every other step, leaves both
\* unchanged.  So each cached command is unset until the first successful
\* build of its kind and then is what the most recent one returned.
C17_CacheIsLastSuccessfulBuild ==
    /\ subprocess_unlock_command = None
    /\ subprocess_lock_command = None
    /\ [][ IF CallStarts /\ NewCall.builds = 1
           THEN IF UnlockKind(NewCall)
                THEN /\ subprocess_unlock_command' = NewCall.command
                     /\ NewCall.command =
                            unlock_command(powershell_executable_path,
                                           mount_point, NewCall.password)
                     /\ UNCHANGED subprocess_lock_command
                ELSE /\ LockKind(NewCall)
                     /\ subprocess_lock_command' = NewCall.command
                     /\ NewCall.command =
                            lock_command(powershell_executable_path, mount_point)
                     /\ UNCHANGED subprocess_unlock_command
           ELSE UNCHANGED << subprocess_unlock_command, subprocess_lock_command >>
       ]_vars

\* a lock build has just succeeded while the unlock command of an earlier
\* build is still cached
C17_Witness ==
    /\ last.op = "prepare_lock_subprocess"
    /\ last.result = "returned"
    /\ subprocess_lock_command = last.command
    /\ subprocess_unlock_command # None

\* ------------------------------------------------------------------ C18
\* C18: in sequential use with an executor that always succeeds and nobody
\* else touching the volume, a call that dispatches a command is never of
\* the same kind as the latest earlier call that dispatched one: unlock and
\* lock commands alternate.
C18_DispatchesAlternate ==
    \A c \in ControllerCalls :
        c.dispatched # <<>> =>
            /\ c.before # c.op
            /\ Len(c.dispatched) = 1

\* a lock command has been run right after an unlock command
C18_Witness ==
    /\ last.op = "lock"
    /\ last.before = "unlock"
    /\ last.returncode = 0
    /\ Len(last.dispatched) = 1

\* ------------------------------------------------------------------ C19
\* a step that is a direct call of one of the two build methods
DirectBuild ==
    /\ CallStarts
    /\ NewCall.op \in {"prepare_unlock_subprocess", "prepare_lock_subprocess"}

\* C19 as stated: a call of prepare_unlock_subprocess or
\* prepare_lock_subprocess, successful or not, leaves every field of the
\* object unchanged.
C19_BuildLeavesFieldsUnchanged ==
    [][ DirectBuild => fields' = fields ]_vars

\* C19, amended: a build that fails leaves every field unchanged; a build
\* that succeeds stores the command it returns in the cached command of its
\* own kind and leaves the other three fields unchanged.
C19_BuildWritesOnlyOwnCache ==
    [][ DirectBuild =>
          /\ volume' = volume
          /\ NewCall.builds = 0 => fields' = fields
          /\ (NewCall.builds = 1 /\ UnlockKind(NewCall)) =>
                /\ subprocess_unlock_command' = NewCall.command
                /\ NewCall.command # None
                /\ UNCHANGED subprocess_lock_command
          /\ (NewCall.builds = 1 /\ LockKind(NewCall)) =>
                /\ subprocess_lock_command' = NewCall.command
                /\ NewCall.command # None
                /\ UNCHANGED subprocess_unlock_command ]_vars

\* the first call made on the object was a successful unlock build, and the
\* field that was None now holds the command returned
C19_Witness ==
    /\ ncalls = 1
    /\ last.op = "prepare_unlock_subprocess"
    /\ last.result = "returned"
    /\ subprocess_unlock_command = last.command
    /\ subprocess_unlock_command # None

\* ------------------------------------------------------------------ C20
\* C20: every unlock() call that dispatched handed to run_command the
\* command built from its own password, whatever other unlock() calls were
\* in flight and whatever they cached; two calls in flight with different
\* passwords have dispatched different commands.
C20_OwnPasswordDispatched ==
    /\ \A c \in ControllerCalls :
          (c.op = "unlock" /\ c.dispatched # <<>>) =>
              c.dispatched =
                  << unlock_command(powershell_executable_path, mount_point,
                                    c.password) >>
    /\ \A t, u \in Tasks :
          ( /\ task[t].op = "unlock" /\ task[u].op = "unlock"
            /\ task[t].dispatched # <<>> /\ task[u].dispatched # <<>>
            /\ task[t].password # task[u].password )
          => task[t].dispatched # task[u].dispatched

\* two unlock() calls with different passwords are in flight; the cached
\* command is the one of the second call, not the one the first dispatched
C20_Witness ==
    /\ task[1].op = "unlock" /\ task[2].op = "unlock"
    /\ task[1].password # task[2].password
    /\ Len(task[1].dispatched) = 1 /\ Len(task[2].dispatched) = 1
    /\ subprocess_unlock_command = task[2].dispatched[1]
    /\ subprocess_unlock_command # task[1].dispatched[1]

\* ------------------------------------------------------------------ C21
\* the part of C21 that holds: a process that was started and has exited
\* never gives the caller FileNotFoundError, and a FileNotFoundError of the
\* mount-point check comes with nothing handed to run_command
C21_RunFailureIsNotNotFound ==
    \A c \in ControllerCalls :
        /\ c.returncode # -1 => c.result # "FileNotFoundError"
        /\ CheckOf(c) = "FileNotFoundError" =>
              (c.result = "FileNotFoundError" /\ c.dispatched = <<>>)

\* C21: a caller of unlock() or lock() that gets FileNotFoundError knows the
\* cause: the mount-point check refused the path, so no command was handed
\* to run_command and no attempt to start the process was made.
C21_NotFoundIdentifiesCause ==
    \A c \in ControllerCalls :
        c.result = "FileNotFoundError" =>
            /\ ~c.obs_ismount
            /\ c.builds = 0
            /\ c.dispatched = <<>>
            /\ c.spawn_error = ""
====
